---------------------------- MODULE Spec2Model ----------------------------
(***************************************************************************)
(* A model of the grid-alignment / normalisation / video pipeline of       *)
(* DeepSeepNet:                                                            *)
(*   - create_video             (aoi_videomaker_V3.py, aoi_videomaker_V2.py)*)
(*   - convert_geotiffs_to_pngs (aoi_videomaker_V3.py, aoi_videomaker_V2.py)*)
(*   - build_reference_grid, pad_to_ref, pad_directory                     *)
(*                              (pad_geotiffs.py, aoi_videomaker_V3.py)    *)
(* Every component has its own specification (SpecVideo, SpecPng,          *)
(* SpecGrid); the variables of the other components stay at their idle     *)
(* values.  The variable prog says which of the programs is running.       *)
(*                                                                         *)
(* Arithmetic is exact: map coordinates and pixel values are integers      *)
(* (pixel values and the value range in units of 1/Scale), so the          *)
(* rounding of IEEE doubles is not part of the model.                      *)
(***************************************************************************)
EXTENDS Integers, Sequences, FiniteSets, TLC

VARIABLES
    prog,        \* "V3" | "V2" | "pad": the program that runs
    \* ---- create_video
    png_dir,     \* the directory listing: a sequence of file names (their fields)
    start_date,  \* the start date argument: NoDate, a date, or InvalidDate
    end_date,    \* the end date argument
    vpc,         \* position in create_video
    pngs,        \* the frames kept, in the order they will be written (indices of png_dir)
    vw,          \* the video writer: "none" | "open" | "released"
    written,     \* the frames handed to the writer so far (indices of png_dir)
    vmsg,        \* what create_video reported
    \* ---- pad_directory
    input_dir,   \* the scenes of the input directory, in listing order
    resolution,  \* the grid resolution argument
    gpc,         \* position in pad_directory
    ref,         \* the reference grid once built (NoGrid before)
    output_dir,  \* the rasters written so far, one per padded scene
    gerr,        \* the exception that ended pad_directory ("none" if none)
    \* ---- convert_geotiffs_to_pngs
    tifs,        \* glob(input_dir/*.tif): the padded scenes, [stamp, arr] each
    landmask,    \* the landmask array, or NoMask
    args,        \* the arguments vmin, vmax, flag_calc_vmin_vmax, polygon
    ppc,         \* position in convert_geotiffs_to_pngs
    files,       \* the files (indices of tifs) in the order of the frame loop
    vals,        \* the values pooled by the statistics pass
    vrange,      \* [vmin, vmax] used for scaling, in units of 1/Scale
    done,        \* number of files the frame loop has gone through
    prev,        \* the previous frame's 8-bit output, or NoFrame
    png_out,     \* the frames written: [file, out] each
    zero_div,    \* whether a division by vmax - vmin = 0 was evaluated
    perr         \* how convert_geotiffs_to_pngs ended early ("none" if not)

videoVars == <<png_dir, start_date, end_date, vpc, pngs, vw, written, vmsg>>
gridVars == <<input_dir, resolution, gpc, ref, output_dir, gerr>>
pngVars == <<tifs, landmask, args, ppc, files, vals, vrange, done, prev,
             png_out, zero_div, perr>>
vars == <<prog, videoVars, gridVars, pngVars>>

--------------------------------------------------------------------------
(* Bounds *)

MaxFrames == 3    \* files in a frame directory
MaxDate == 3      \* calendar dates 1..MaxDate
MaxCoord == 2     \* map coordinates of a scene's corner: -MaxCoord..MaxCoord
MaxTifs == 2      \* padded scenes in the directory convert_geotiffs_to_pngs reads

--------------------------------------------------------------------------
(* Generic helpers *)

Min(a, b) == IF a <= b THEN a ELSE b
Max(a, b) == IF a >= b THEN a ELSE b

\* All sequences over S of length 0..n
SeqsUpTo(S, n) == UNION {[1..k -> S] : k \in 0..n}

\* [x for x in s if x in keep]: a list comprehension, order preserved
FilterSeq(s, keep) ==
    LET F[n \in 0..Len(s)] ==
            IF n = 0 THEN <<>>
            ELSE IF s[n] \in keep THEN Append(F[n - 1], s[n]) ELSE F[n - 1]
    IN F[Len(s)]

\* Insert x after every element whose key is <= key[x]: a stable insertion
InsertStable(sorted, x, key) ==
    LET n == Len(sorted)
        later == {i \in 1..n : key[sorted[i]] > key[x]}
        p == IF later = {} THEN n + 1 ELSE CHOOSE i \in later : \A j \in later : i <= j
    IN SubSeq(sorted, 1, p - 1) \o <<x>> \o SubSeq(sorted, p, n)

\* Python's sorted(s, key=...): ascending and stable; key is a function on
\* the elements of s
SortedBy(s, key) ==
    LET F[n \in 0..Len(s)] ==
            IF n = 0 THEN <<>> ELSE InsertStable(F[n - 1], s[n], key)
    IN F[Len(s)]

--------------------------------------------------------------------------
(* File names and their time stamps *)

\* A file name is modelled by the two fixed-offset fields the parser reads:
\* fn[17:25] (year, month, day) and fn[26:32] (hour, minute, second).  A
\* field either holds a calendar date / a time of day, or it is BadField
\* (missing, because the name is too short, or not a number, so that int()
\* raises) or OutOfRange (digits that datetime() rejects).
BadField == -1
NoDate == -2         \* the argument None (or the empty string)
InvalidDate == -3    \* an argument that is not a %d%m%Y date
OutOfRange == -4     \* a field of digits outside the calendar (month 13)

Dates == 1..MaxDate
Tods == {0, 1}       \* two times of day: an early and a late acquisition
TodN == Cardinality(Tods)

FileNames ==
    {[date |-> d, time |-> t] : d \in Dates, t \in Tods}
    \cup {[date |-> OutOfRange, time |-> 0], [date |-> 1, time |-> BadField]}

\* datetime.min: date 0, time of day 0.  Every date a file name can hold is
\* later (an acquisition in year 1 is not modelled).
DatetimeMin == 0

\* int() of a field that is missing or not a number raises ValueError
IntRaises(fn) == fn.date = BadField \/ fn.time = BadField
\* datetime() of numbers outside the calendar raises ValueError
DatetimeRaises(fn) == ~IntRaises(fn) /\ fn.date = OutOfRange

Parsable(fn) == ~IntRaises(fn) /\ ~DatetimeRaises(fn)

\* The exception raised inside the try block, "none" if none
RaisedInTry(fn) == IF Parsable(fn) THEN "none" ELSE "ValueError"

\* A handler that catches nothing
CaughtNever(e) == FALSE

\* "except Exception": ValueError is an Exception
Caught(e) == e = "ValueError"

\* What a call of parse_filename_for_datetime does: it returns dt, or the
\* exception leaves the function
ParseOutcome(fn) ==
    LET e == RaisedInTry(fn)
    IN IF e = "none" THEN [raises |-> FALSE, dt |-> fn.date * TodN + fn.time]
       ELSE IF Caught(e) THEN [raises |-> FALSE, dt |-> DatetimeMin]
       ELSE [raises |-> TRUE]

\* A fallback that sorts last instead of first
ParseFallbackLast(fn) ==
    IF Parsable(fn) THEN fn.date * TodN + fn.time ELSE (MaxDate + 1) * TodN

\* parse_filename_for_datetime: fixed offsets, datetime.min on any exception
parse_filename_for_datetime(fn) == ParseOutcome(fn).dt

\* datetime.date()
DateOf(dt) == dt \div TodN

\* get_date_from_filename (V2): None for the sentinel; None is NoDate here
get_date_from_filename(fn) ==
    LET dt == parse_filename_for_datetime(fn)
    IN IF dt # DatetimeMin THEN DateOf(dt) ELSE NoDate

DateArgs == {NoDate, InvalidDate} \cup Dates

--------------------------------------------------------------------------
(* create_video *)

Listing == [i \in 1..Len(png_dir) |-> i]
KeyOf(i) == parse_filename_for_datetime(png_dir[i])
Keys == [i \in 1..Len(png_dir) |-> KeyOf(i)]

\* The end bound compared with the time stamp instead of its date: a frame
\* taken on the end date after midnight falls outside
KeepV3TimeOfDay(i) ==
    /\ (start_date # NoDate => DateOf(KeyOf(i)) >= start_date)
    /\ (end_date # NoDate => KeyOf(i) <= end_date * TodN)

\* V3, lines 239-244: each filter is applied only if its argument is truthy
KeepV3(i) ==
    /\ (start_date # NoDate => DateOf(KeyOf(i)) >= start_date)
    /\ (end_date # NoDate => DateOf(KeyOf(i)) <= end_date)

\* V3, lines 236-244: sort, then filter
FramesV3 == FilterSeq(SortedBy(Listing, Keys), {i \in 1..Len(png_dir) : KeepV3(i)})

\* V2, lines 255-269: an invalid date string is reported and ignored
StartV2 == IF start_date = InvalidDate THEN NoDate ELSE start_date
EndV2 == IF end_date = InvalidDate THEN NoDate ELSE end_date
date_filter == StartV2 # NoDate \/ EndV2 # NoDate

\* V2, filter_list, lines 271-281
KeepV2(i) ==
    LET d == get_date_from_filename(png_dir[i])
    IN \/ ~date_filter
       \/ /\ d # NoDate
          /\ ~(StartV2 # NoDate /\ d < StartV2)
          /\ ~(EndV2 # NoDate /\ d > EndV2)

\* The filtered listing, left in directory order
FramesV2Unsorted == FilterSeq(Listing, {i \in 1..Len(png_dir) : KeepV2(i)})

\* V2, lines 323-325: filter, then sort
FramesV2 == SortedBy(FilterSeq(Listing, {i \in 1..Len(png_dir) : KeepV2(i)}), Keys)

\* V3, lines 240, 243: datetime.strptime raises ValueError on a bad string
StrptimeRaises == prog = "V3" /\ (start_date = InvalidDate \/ end_date = InvalidDate)

FramesKept == IF prog = "V3" THEN FramesV3 ELSE FramesV2

\* The emptiness test left out
NoFramesNeverReturns(frames) == FALSE

\* "if not pngs: print(...); return", V3 245-247, V2 326-328
NoFramesReturns(frames) == frames = <<>>

\* An exception that leaves parse_filename_for_datetime ends create_video
ParseRaises == \E i \in 1..Len(png_dir) : ParseOutcome(png_dir[i]).raises

\* The head of create_video, up to the decision whether there is a video
CollectFrames ==
    /\ vpc = "start"
    /\ IF ParseRaises
       THEN /\ vpc' = "failed"
            /\ vmsg' = "ParseRaised"
            /\ UNCHANGED pngs
       ELSE IF StrptimeRaises
       THEN /\ vpc' = "failed"
            /\ vmsg' = "ValueError"
            /\ UNCHANGED pngs
       ELSE LET frames == FramesKept
            IN /\ pngs' = frames
               /\ IF NoFramesReturns(frames)
                  THEN vpc' = "done" /\ vmsg' = "NoFrames"
                  ELSE vpc' = "open" /\ UNCHANGED vmsg
    /\ UNCHANGED <<prog, png_dir, start_date, end_date, vw, written, gridVars, pngVars>>

\* cv2.imread of the first frame and cv2.VideoWriter(...): V3 249-256, V2 330-335.
\* pngs[0] of an empty list raises IndexError.
OpenWriter ==
    /\ vpc = "open"
    /\ IF pngs = <<>>
       THEN vpc' = "failed" /\ vmsg' = "IndexError" /\ UNCHANGED vw
       ELSE vpc' = "write" /\ vw' = "open" /\ UNCHANGED vmsg
    /\ UNCHANGED <<prog, png_dir, start_date, end_date, pngs, written, gridVars, pngVars>>

\* One iteration of the frame loop: V3 258-275, V2 337-345
WriteFrame ==
    /\ vpc = "write"
    /\ Len(written) < Len(pngs)
    /\ written' = Append(written, pngs[Len(written) + 1])
    /\ UNCHANGED <<prog, png_dir, start_date, end_date, vpc, pngs, vw, vmsg, gridVars, pngVars>>

\* vw.release(): V3 276-277, V2 346-347
ReleaseWriter ==
    /\ vpc = "write"
    /\ Len(written) = Len(pngs)
    /\ vw' = "released"
    /\ vpc' = "done"
    /\ vmsg' = "Saved"
    /\ UNCHANGED <<prog, png_dir, start_date, end_date, pngs, written, gridVars, pngVars>>

\* The idle values of the variables of pad_directory
GridIdle ==
    /\ input_dir = <<>>
    /\ resolution = 1
    /\ gpc = "idle"
    /\ ref = [set |-> FALSE]
    /\ output_dir = <<>>
    /\ gerr = "none"

\* The idle values of the variables of create_video
VideoIdle ==
    /\ png_dir = <<>>
    /\ start_date = NoDate
    /\ end_date = NoDate
    /\ vpc = "idle"
    /\ pngs = <<>>
    /\ vw = "none"
    /\ written = <<>>
    /\ vmsg = "none"

\* The idle values of the variables of convert_geotiffs_to_pngs
PngIdle ==
    /\ tifs = <<>>
    /\ landmask = <<>>
    /\ args = [vmin |-> -1, vmax |-> -1, flag |-> FALSE, polygon |-> {}]
    /\ ppc = "idle"
    /\ files = <<>>
    /\ vals = <<>>
    /\ vrange = [vmin |-> -1, vmax |-> -1]
    /\ done = 0
    /\ prev = <<>>
    /\ png_out = <<>>
    /\ zero_div = FALSE
    /\ perr = "none"

InitVideo ==
    /\ GridIdle
    /\ PngIdle
    /\ prog \in {"V3", "V2"}
    /\ png_dir \in SeqsUpTo(FileNames, MaxFrames)
    /\ start_date \in DateArgs
    /\ end_date \in DateArgs
    /\ vpc = "start"
    /\ pngs = <<>>
    /\ vw = "none"
    /\ written = <<>>
    /\ vmsg = "none"

NextVideo == CollectFrames \/ OpenWriter \/ WriteFrame \/ ReleaseWriter

SpecVideo == InitVideo /\ [][NextVideo]_vars

--------------------------------------------------------------------------
(* Scenes and the reference grid *)

\* A scene (one GeoTIFF): its upper left corner in map units, its size in
\* pixels and its native pixel size (north-up, square pixels).
Coords == -MaxCoord..MaxCoord
Dims == {1, 2}            \* pixels per side of a scene
Resolutions == {1, 2}     \* pixel sizes, of a scene and of the grid
SceneCounts == {0, 1, 2}  \* files in an input directory

Scenes ==
    [left : Coords, top : Coords, width : Dims, height : Dims, px : Resolutions]

\* src.bounds (rasterio); V3 90-91 computes the same from the geotransform
BoundsOf(s) ==
    [left |-> s.left,
     bottom |-> s.top - s.px * s.height,
     right |-> s.left + s.px * s.width,
     top |-> s.top]

SetMin(S) == CHOOSE x \in S : \A y \in S : x <= y
SetMax(S) == CHOOSE x \in S : \A y \in S : x >= y

\* Python's a // b and math.floor(a / b), for b > 0
FloorDiv(a, b) == a \div b
\* -(-a // b) and math.ceil(a / b)
CeilDiv(a, b) == -((-a) \div b)
\* int(a / b): truncation toward zero
TruncDiv(a, b) == IF a >= 0 THEN a \div b ELSE -((-a) \div b)
\* int(round(a / b)): Python 3 rounds halves to even
RoundDiv(a, b) ==
    LET q == a \div b
        r == a % b
    IN IF 2 * r < b THEN q
       ELSE IF 2 * r > b THEN q + 1
       ELSE IF q % 2 = 0 THEN q ELSE q + 1

\* Three overlapping scenes of ten by ten pixels of size 10, with bounds
\* (left, bottom, right, top) = (0,0,100,100), (50,50,150,150), (-20,-20,80,80),
\* to be aligned at resolution 10
ScenarioScenes ==
    {[left |-> 0, top |-> 100, width |-> 10, height |-> 10, px |-> 10],
     [left |-> 50, top |-> 150, width |-> 10, height |-> 10, px |-> 10],
     [left |-> -20, top |-> 80, width |-> 10, height |-> 10, px |-> 10]}
\* The directory listings that hold exactly these three scenes
ScenarioDirs == {d \in [1..3 -> ScenarioScenes] : {d[i] : i \in 1..3} = ScenarioScenes}

NoGrid == [set |-> FALSE]

\* One pixel more than the extent holds
build_reference_grid_pad_Fencepost(bs, res) ==
    LET grid == res
        min_left == FloorDiv(SetMin({b.left : b \in bs}), grid) * grid
        max_top == CeilDiv(SetMax({b.top : b \in bs}), grid) * grid
        max_right == CeilDiv(SetMax({b.right : b \in bs}), grid) * grid
        min_bottom == FloorDiv(SetMin({b.bottom : b \in bs}), grid) * grid
    IN [set |-> TRUE,
        ext |-> [left |-> min_left, bottom |-> min_bottom,
                 right |-> max_right, top |-> max_top],
        transform |-> [a |-> grid, c |-> min_left, f |-> max_top],
        size |-> [width |-> RoundDiv(max_right - min_left, grid) + 1,
                  height |-> RoundDiv(max_top - min_bottom, grid) + 1]]

\* The left edge snapped inward (to the right) instead of outward
build_reference_grid_V3_SnapInward(bs, res) ==
    LET min_left == res * CeilDiv(SetMin({b.left : b \in bs}), res)
        max_right == res * CeilDiv(SetMax({b.right : b \in bs}), res)
        min_bottom == res * FloorDiv(SetMin({b.bottom : b \in bs}), res)
        max_top == res * CeilDiv(SetMax({b.top : b \in bs}), res)
    IN [set |-> TRUE,
        ext |-> [left |-> min_left, bottom |-> min_bottom,
                 right |-> max_right, top |-> max_top],
        transform |-> [a |-> res, c |-> min_left, f |-> max_top],
        size |-> [width |-> TruncDiv(max_right - min_left, res),
                  height |-> TruncDiv(max_top - min_bottom, res)]]

\* A margin of one pixel added on the left and at the top
build_reference_grid_V3_Margin(bs, res) ==
    LET min_left == res * (FloorDiv(SetMin({b.left : b \in bs}), res) - 1)
        max_right == res * CeilDiv(SetMax({b.right : b \in bs}), res)
        min_bottom == res * FloorDiv(SetMin({b.bottom : b \in bs}), res)
        max_top == res * (CeilDiv(SetMax({b.top : b \in bs}), res) + 1)
    IN [set |-> TRUE,
        ext |-> [left |-> min_left, bottom |-> min_bottom,
                 right |-> max_right, top |-> max_top],
        transform |-> [a |-> res, c |-> min_left, f |-> max_top],
        size |-> [width |-> TruncDiv(max_right - min_left, res),
                  height |-> TruncDiv(max_top - min_bottom, res)]]

\* build_reference_grid of aoi_videomaker_V3.py, for a non-empty set of bounds
build_reference_grid_V3(bs, res) ==
    LET min_left == res * FloorDiv(SetMin({b.left : b \in bs}), res)
        max_right == res * CeilDiv(SetMax({b.right : b \in bs}), res)
        min_bottom == res * FloorDiv(SetMin({b.bottom : b \in bs}), res)
        max_top == res * CeilDiv(SetMax({b.top : b \in bs}), res)
    IN [set |-> TRUE,
        ext |-> [left |-> min_left, bottom |-> min_bottom,
                 right |-> max_right, top |-> max_top],
        transform |-> [a |-> res, c |-> min_left, f |-> max_top],
        size |-> [width |-> TruncDiv(max_right - min_left, res),
                  height |-> TruncDiv(max_top - min_bottom, res)]]

\* build_reference_grid of pad_geotiffs.py, for a non-empty set of bounds.
\* It returns the transform and the size; ext is kept for the record.
build_reference_grid_pad(bs, res) ==
    LET grid == res
        min_left == FloorDiv(SetMin({b.left : b \in bs}), grid) * grid
        max_top == CeilDiv(SetMax({b.top : b \in bs}), grid) * grid
        max_right == CeilDiv(SetMax({b.right : b \in bs}), grid) * grid
        min_bottom == FloorDiv(SetMin({b.bottom : b \in bs}), grid) * grid
    IN [set |-> TRUE,
        ext |-> [left |-> min_left, bottom |-> min_bottom,
                 right |-> max_right, top |-> max_top],
        transform |-> [a |-> grid, c |-> min_left, f |-> max_top],
        size |-> [width |-> RoundDiv(max_right - min_left, grid),
                  height |-> RoundDiv(max_top - min_bottom, grid)]]

--------------------------------------------------------------------------
(* pad_to_ref *)

\* The pixel of a source raster at row r, column c (from 0): a tag that
\* names the position, so that a copy shows where each pixel came from.
Nodata == 0
SrcPixel(s, r, c) == r * s.width + c + 1
\* A pixel gdal.Warp resampled: its value is the warping library's business
Resampled == -1

\* The indices a[start:stop] selects from a sequence of length n: a negative
\* index counts from the end, and both ends are clamped to 0..n.
PyIndex(i, n) == IF i < 0 THEN Max(i + n, 0) ELSE Min(i, n)
PySlice(start, stop, n) ==
    LET lo == PyIndex(start, n)
        hi == PyIndex(stop, n)
    IN [lo |-> lo, len |-> Max(hi - lo, 0)]

\* numpy's rule for out[...] = data[...] along one axis: equal lengths, or a
\* source of length 1, which is repeated
Broadcasts(srcLen, dstLen) == srcLen = dstLen \/ srcLen = 1

\* The output keeps the shape of the source instead of the grid's
pad_to_ref_SourceShape(s, ref_transform, target_size, nodata) ==
    [ok |-> TRUE,
     raster |-> [transform |-> ref_transform,
                 width |-> s.width, height |-> s.height,
                 data |-> [r \in 1..s.height |->
                              [c \in 1..s.width |-> SrcPixel(s, r - 1, c - 1)]]]]

\* Nothing is copied: the output is the nodata canvas
pad_to_ref_Blank(s, ref_transform, target_size, nodata) ==
    [ok |-> TRUE,
     raster |-> [transform |-> ref_transform,
                 width |-> target_size.width, height |-> target_size.height,
                 data |-> [r \in 1..target_size.height |->
                              [c \in 1..target_size.width |-> nodata]]]]

\* pad_to_ref of pad_geotiffs.py (one band): the raster written to dst_path,
\* or ok = FALSE when the slice assignment raises ValueError
pad_to_ref(s, ref_transform, target_size, nodata) ==
    LET tw == target_size.width
        th == target_size.height
        ref_left == ref_transform.c
        ref_top == ref_transform.f
        col_i == FloorDiv(s.left - ref_left, s.px)
        row_i == FloorDiv(ref_top - s.top, s.px)
        dst_col_start == Max(col_i, 0)
        dst_row_start == Max(row_i, 0)
        dst_col_end == Min(col_i + s.width, tw)
        dst_row_end == Min(row_i + s.height, th)
        src_col_start == Max(0, -col_i)
        src_row_start == Max(0, -row_i)
        src_col_end == src_col_start + (dst_col_end - dst_col_start)
        src_row_end == src_row_start + (dst_row_end - dst_row_start)
        dstR == PySlice(dst_row_start, dst_row_end, th)
        dstC == PySlice(dst_col_start, dst_col_end, tw)
        srcR == PySlice(src_row_start, src_row_end, s.height)
        srcC == PySlice(src_col_start, src_col_end, s.width)
        Copied(r, c) ==
            SrcPixel(s,
                     srcR.lo + (IF srcR.len = 1 THEN 0 ELSE r - dstR.lo),
                     srcC.lo + (IF srcC.len = 1 THEN 0 ELSE c - dstC.lo))
        InWindow(r, c) ==
            /\ dstR.lo <= r /\ r < dstR.lo + dstR.len
            /\ dstC.lo <= c /\ c < dstC.lo + dstC.len
    IN IF Broadcasts(srcR.len, dstR.len) /\ Broadcasts(srcC.len, dstC.len)
       THEN [ok |-> TRUE,
             raster |-> [transform |-> ref_transform,
                         width |-> tw, height |-> th,
                         data |-> [r \in 1..th |->
                                      [c \in 1..tw |->
                                          IF InWindow(r - 1, c - 1)
                                          THEN Copied(r - 1, c - 1)
                                          ELSE nodata]]]]
       ELSE [ok |-> FALSE]

\* gdal.Warp(dst, src, outputBounds=ext, xRes=resolution, yRes=resolution):
\* the library creates a raster over exactly the output bounds at that pixel
\* size; its pixel values are resampled and not modelled.
gdal_Warp(s, ext, res) ==
    LET w == FloorDiv(2 * (ext.right - ext.left) + res, 2 * res)
        h == FloorDiv(2 * (ext.top - ext.bottom) + res, 2 * res)
    IN [ok |-> TRUE,
        raster |-> [transform |-> [a |-> res, c |-> ext.left, f |-> ext.top],
                    width |-> w, height |-> h,
                    data |-> [r \in 1..h |-> [c \in 1..w |-> Resampled]]]]

--------------------------------------------------------------------------
(* pad_directory *)

\* The scan that accepts an empty directory
ScanAcceptsEmpty ==
    /\ gpc = "scan"
    /\ gpc' = "build"
    /\ UNCHANGED <<prog, input_dir, resolution, ref, output_dir, gerr, videoVars, pngVars>>

\* scan_geotiffs (pad_geotiffs.py 10-33) and the loop of pad_directory
\* (V3 82-95): gather the scenes' bounds; an empty list raises
ScanGeotiffs ==
    /\ gpc = "scan"
    /\ IF input_dir = <<>>
       THEN gpc' = "failed" /\ gerr' = "NoGeoTIFFs"
       ELSE gpc' = "build" /\ UNCHANGED gerr
    /\ UNCHANGED <<prog, input_dir, resolution, ref, output_dir, videoVars, pngVars>>

\* The call of build_reference_grid: pad_geotiffs.py 117, V3 97-101.
\* With no scene, min() of an empty list (pad_geotiffs.py 45) or the
\* unpacking of an empty zip (V3 58) raises ValueError.
BuildGrid ==
    /\ gpc = "build"
    /\ LET bs == {BoundsOf(input_dir[i]) : i \in 1..Len(input_dir)}
       IN IF bs = {}
          THEN gpc' = "failed" /\ gerr' = "ValueError" /\ UNCHANGED ref
          ELSE /\ ref' = IF prog = "V3"
                         THEN build_reference_grid_V3(bs, resolution)
                         ELSE build_reference_grid_pad(bs, resolution)
               /\ gpc' = "pad"
               /\ UNCHANGED gerr
    /\ UNCHANGED <<prog, input_dir, resolution, output_dir, videoVars, pngVars>>

\* One iteration of the loop over infos: pad_geotiffs.py 119-123 (pad_to_ref),
\* V3 113-116 (gdal.Warp)
PadNext ==
    /\ gpc = "pad"
    /\ Len(output_dir) < Len(input_dir)
    /\ LET s == input_dir[Len(output_dir) + 1]
           res == IF prog = "V3"
                  THEN gdal_Warp(s, ref.ext, resolution)
                  ELSE pad_to_ref(s, ref.transform, ref.size, Nodata)
       IN IF res.ok
          THEN output_dir' = Append(output_dir, res.raster) /\ UNCHANGED <<gpc, gerr>>
          ELSE gpc' = "failed" /\ gerr' = "BroadcastError" /\ UNCHANGED output_dir
    /\ UNCHANGED <<prog, input_dir, resolution, ref, videoVars, pngVars>>

\* The end of pad_directory: pad_geotiffs.py 124, V3 117-118
PadDone ==
    /\ gpc = "pad"
    /\ Len(output_dir) = Len(input_dir)
    /\ gpc' = "done"
    /\ UNCHANGED <<prog, input_dir, resolution, ref, output_dir, gerr, videoVars, pngVars>>

InitGrid ==
    /\ VideoIdle
    /\ PngIdle
    /\ prog \in {"V3", "pad"}
    /\ \/ /\ \E n \in SceneCounts : input_dir \in [1..n -> Scenes]
          /\ resolution \in Resolutions
       \/ /\ input_dir \in ScenarioDirs
          /\ resolution = 10
    /\ gpc = "scan"
    /\ ref = NoGrid
    /\ output_dir = <<>>
    /\ gerr = "none"

NextGrid == ScanGeotiffs \/ BuildGrid \/ PadNext \/ PadDone

SpecGrid == InitGrid /\ [][NextGrid]_vars

--------------------------------------------------------------------------
(* pad_to_ref called on its own: a caller aligns a scene to a grid that was  *)
(* built elsewhere (from another directory), so the scene need not lie in it *)

GridDims == {1, 2, 3}    \* pixels per side of a grid handed to pad_to_ref
AlignResolutions == Resolutions \cup {3}

\* The scenes a caller can pass
AlignScenes ==
    [left : Coords, top : Coords, width : Dims, height : Dims, px : AlignResolutions]

\* The grids a caller can pass: ref_transform and target_size
Grids ==
    {[set |-> TRUE,
      ext |-> [left |-> c, bottom |-> f - a * h, right |-> c + a * w, top |-> f],
      transform |-> [a |-> a, c |-> c, f |-> f],
      size |-> [width |-> w, height |-> h]] :
        a \in AlignResolutions, c \in Coords, f \in Coords, w \in GridDims, h \in GridDims}

InitAlign ==
    /\ VideoIdle
    /\ PngIdle
    /\ prog = "pad"
    /\ input_dir \in [1..1 -> AlignScenes]
    /\ ref \in Grids
    /\ resolution = ref.transform.a
    /\ gpc = "pad"
    /\ output_dir = <<>>
    /\ gerr = "none"

NextAlign == PadNext \/ PadDone

SpecAlign == InitAlign /\ [][NextAlign]_vars

--------------------------------------------------------------------------
(* build_reference_grid in floating point                                  *)

\* The program computes the grid in binary floating point.  With whole-number
\* bounds and resolution (the default is 40.0) every intermediate value is
\* exact and the integer arithmetic above is what the code computes.  With a
\* decimal resolution such as 0.1 each operation rounds to the nearest
\* representable value.  A float is m * 2^e with FloatBits significant bits
\* (53 in the program), rounded to nearest, ties to even.
FloatBits == 8
DecimalDen == 10        \* bounds and resolution are given in tenths
TenthCoords == -6..6
TenthSpans == 1..7
TenthResolutions == {1, 2, 3, 5, 10}

RECURSIVE Pow2(_)
Pow2(n) == IF n = 0 THEN 1 ELSE 2 * Pow2(n - 1)

FZero == [m |-> 0, e |-> 0]
FNeg(x) == [m |-> -x.m, e |-> x.e]

\* a / den > 0 rounded to FloatBits significant bits, e counting the binary
\* places already shifted
RECURSIVE RoundPos(_, _, _)
RoundPos(a, den, e) ==
    IF a >= Pow2(FloatBits) * den THEN RoundPos(a, 2 * den, e + 1)
    ELSE IF a < Pow2(FloatBits - 1) * den THEN RoundPos(2 * a, den, e - 1)
    ELSE LET q == a \div den
             r == a % den
             m == IF 2 * r > den \/ (2 * r = den /\ q % 2 = 1) THEN q + 1 ELSE q
         IN IF m = Pow2(FloatBits)
            THEN [m |-> Pow2(FloatBits - 1), e |-> e + 1]
            ELSE [m |-> m, e |-> e]

\* The float nearest to num / den, for den > 0
RoundRat(num, den) ==
    IF num = 0 THEN FZero
    ELSE IF num > 0 THEN RoundPos(num, den, 0)
    ELSE FNeg(RoundPos(-num, den, 0))

\* The value of a float as a fraction
Num(x) == x.m * Pow2(Max(x.e, 0))
Den(x) == Pow2(Max(-x.e, 0))

\* float("0.3"): the float nearest to k tenths
FromDecimal(k) == RoundRat(k, DecimalDen)

FLeq(x, y) == Num(x) * Den(y) <= Num(y) * Den(x)
FMin(S) == CHOOSE x \in S : \A y \in S : FLeq(x, y)
FMax(S) == CHOOSE x \in S : \A y \in S : FLeq(y, x)

\* x - y, rounded
FSub(x, y) ==
    LET e0 == Min(x.e, y.e)
        n == x.m * Pow2(x.e - e0) - y.m * Pow2(y.e - e0)
    IN RoundRat(n * Pow2(Max(e0, 0)), Pow2(Max(-e0, 0)))

\* x / y, rounded, for y > 0
FDiv(x, y) ==
    LET d == x.e - y.e
    IN RoundRat(x.m * Pow2(Max(d, 0)), y.m * Pow2(Max(-d, 0)))

\* x * n for a whole number n, rounded
FMulInt(x, n) == RoundRat(Num(x) * n, Den(x))

\* x // y for y > 0: Python's float floor division returns the floor of the
\* exact quotient of the two floats
FFloorDiv(x, y) ==
    LET d == x.e - y.e
    IN FloorDiv(x.m * Pow2(Max(d, 0)), y.m * Pow2(Max(-d, 0)))

\* math.floor, math.ceil, int() and round() of a float
FFloor(x) == FloorDiv(Num(x), Den(x))
FCeil(x) == CeilDiv(Num(x), Den(x))
FTrunc(x) == TruncDiv(Num(x), Den(x))
FRound(x) == RoundDiv(Num(x), Den(x))

\* The bounds of a scene given in tenths, as floats
FloatBoundsOf(s) ==
    LET b == BoundsOf(s)
    IN [left |-> FromDecimal(b.left), bottom |-> FromDecimal(b.bottom),
        right |-> FromDecimal(b.right), top |-> FromDecimal(b.top)]

\* build_reference_grid of aoi_videomaker_V3.py on floats
build_reference_grid_V3_float(bs, res) ==
    LET min_left == FMulInt(res, FFloorDiv(FMin({b.left : b \in bs}), res))
        max_right == FMulInt(res, -FFloorDiv(FNeg(FMax({b.right : b \in bs})), res))
        min_bottom == FMulInt(res, FFloorDiv(FMin({b.bottom : b \in bs}), res))
        max_top == FMulInt(res, -FFloorDiv(FNeg(FMax({b.top : b \in bs})), res))
    IN [set |-> TRUE,
        ext |-> [left |-> min_left, bottom |-> min_bottom,
                 right |-> max_right, top |-> max_top],
        transform |-> [a |-> res, c |-> min_left, f |-> max_top],
        size |-> [width |-> FTrunc(FDiv(FSub(max_right, min_left), res)),
                  height |-> FTrunc(FDiv(FSub(max_top, min_bottom), res))]]

\* build_reference_grid of pad_geotiffs.py on floats
build_reference_grid_pad_float(bs, res) ==
    LET grid == res
        min_left == FMulInt(grid, FFloor(FDiv(FMin({b.left : b \in bs}), grid)))
        max_top == FMulInt(grid, FCeil(FDiv(FMax({b.top : b \in bs}), grid)))
        max_right == FMulInt(grid, FCeil(FDiv(FMax({b.right : b \in bs}), grid)))
        min_bottom == FMulInt(grid, FFloor(FDiv(FMin({b.bottom : b \in bs}), grid)))
    IN [set |-> TRUE,
        ext |-> [left |-> min_left, bottom |-> min_bottom,
                 right |-> max_right, top |-> max_top],
        transform |-> [a |-> grid, c |-> min_left, f |-> max_top],
        size |-> [width |-> FRound(FDiv(FSub(max_right, min_left), grid)),
                  height |-> FRound(FDiv(FSub(max_top, min_bottom), grid))]]

\* The scenes of a directory with decimal coordinates: square scenes of one
\* to seven tenths a side, lower left corner on the diagonal
TenthScenes ==
    {[left |-> l, top |-> l + w, width |-> w, height |-> w, px |-> 1] :
        l \in TenthCoords, w \in TenthSpans}

\* build_reference_grid called on the scenes' bounds: V3 99-100,
\* pad_geotiffs.py 117
BuildGridFloat ==
    /\ gpc = "build"
    /\ LET bs == {FloatBoundsOf(input_dir[i]) : i \in 1..Len(input_dir)}
           res == FromDecimal(resolution)
       IN ref' = IF prog = "V3"
                 THEN build_reference_grid_V3_float(bs, res)
                 ELSE build_reference_grid_pad_float(bs, res)
    /\ gpc' = "pad"
    /\ UNCHANGED <<prog, input_dir, resolution, output_dir, gerr, videoVars, pngVars>>

InitFloat ==
    /\ VideoIdle
    /\ PngIdle
    /\ prog \in {"V3", "pad"}
    /\ input_dir \in [1..1 -> TenthScenes]
    /\ resolution \in TenthResolutions
    /\ gpc = "build"
    /\ ref = NoGrid
    /\ output_dir = <<>>
    /\ gerr = "none"

NextFloat == BuildGridFloat

SpecFloat == InitFloat /\ [][NextFloat]_vars

--------------------------------------------------------------------------
(* convert_geotiffs_to_pngs: rasters, value range, scaling *)

\* A raster is its pixels' values, one per pixel of the grid: every step of
\* the conversion works pixel by pixel or on the pooled values, so the pixels
\* are numbered along the flattened array.
Pixels == {1, 2}
Vals == {0, 1, 2}       \* pixel values
NaN == -1               \* the nodata value
NoneArg == -1           \* an argument left at None
NoMask == <<>>          \* no landmask given
NoFrame == <<>>         \* prev = None

Arrs == [Pixels -> Vals \cup {NaN}]
\* The raster of a file gdal.Open cannot open is never read
Unreadable == [p \in Pixels |-> NaN]
Landmasks == {NoMask, [p \in Pixels |-> 0], [p \in Pixels |-> IF p = 1 THEN 1 ELSE 0],
              [p \in Pixels |-> 1]}

\* The names of n files: listed in reverse time order; all unparsable; or in
\* time order with an unparsable name listed last
NamePatterns(n) ==
    {[i \in 1..n |-> [date |-> n + 1 - i, time |-> 0]],
     [i \in 1..n |-> [date |-> BadField, time |-> 0]],
     [i \in 1..n |-> IF i = n THEN [date |-> 1, time |-> BadField]
                     ELSE [date |-> i, time |-> 0]]}

\* vmin, vmax of V3 (None or a number); of V2 (numbers), with
\* flag_calc_vmin_vmax and polygon_wkt (the pixels its outline covers)
UserVals == {1, 2}
ArgsV3 ==
    [vmin : UserVals \cup {NoneArg}, vmax : UserVals \cup {NoneArg},
     flag : {FALSE}, polygon : {{}}]
ArgsV2 ==
    [vmin : UserVals, vmax : UserVals, flag : {FALSE}, polygon : {{}}]
    \cup [vmin : {1}, vmax : {2}, flag : BOOLEAN, polygon : {{1}}]
    \cup [vmin : {1}, vmax : {2}, flag : {TRUE}, polygon : {{}}]

\* A user range of V3 that starts below zero
ArgsV3Negative == [vmin : {-2}, vmax : {2}, flag : {FALSE}, polygon : {{}}]

\* The arguments of the V2 runs on a directory with a file that does not open
ArgsUnreadable == [vmin : {1}, vmax : {2}, flag : BOOLEAN, polygon : {{}}]

\* Units of the value range: 0.135 % of an index is a multiple of 1/100000
Scale == 100000
PLow == 135        \* the 0.135th percentile, in 1/Scale
PHigh == 99865     \* the 99.865th percentile, in 1/Scale
ByteMax == 255

TifKeys == [i \in 1..Len(tifs) |-> parse_filename_for_datetime(tifs[i].name)]
Glob == [i \in 1..Len(tifs) |-> i]
\* The files as the directory lists them
FilesUnsorted == Glob

\* files sorted by parsed date: V3 167-168, V2 146
SortedFiles == SortedBy(Glob, TifKeys)

IsLand(p) == landmask # NoMask /\ landmask[p] = 1
\* "(lm is None) | (lm == 0)", V3 207-208; "~lm" with lm = (landmask == 1), V2 164-170
NotLand(p) == landmask = NoMask \/ landmask[p] = 0

\* The mask of the statistics pass: V3 186, V2 130-133
StatsMask(arr, p) ==
    IF landmask = NoMask THEN arr[p] # NaN
    ELSE arr[p] # NaN /\ landmask[p] = 1

\* arr[mask], flattened in pixel order
RECURSIVE Masked(_, _, _)
Masked(arr, mask, n) ==
    IF n = 0 THEN <<>>
    ELSE IF n \in mask THEN Append(Masked(arr, mask, n - 1), arr[n])
         ELSE Masked(arr, mask, n - 1)

NPix == Cardinality(Pixels)

\* np.concatenate of arr[mask] over the files, in the order they are read
RECURSIVE Pooled(_, _)
Pooled(order, n) ==
    IF n = 0 THEN <<>>
    ELSE Pooled(order, n - 1)
         \o Masked(tifs[order[n]].arr,
                   {p \in Pixels : StatsMask(tifs[order[n]].arr, p)}, NPix)

\* The values of a sequence in ascending order
SortVals(v) ==
    LET idx == [i \in 1..Len(v) |-> i]
        s == SortedBy(idx, v)
    IN [i \in 1..Len(v) |-> v[s[i]]]

\* The interpolation done on the values as pooled, without ordering them
PercentileUnsorted(v, q) ==
    LET n == Len(v)
        pos == (n - 1) * q
        lo == pos \div Scale
        fr == pos % Scale
        hi == Min(lo + 1, n - 1)
    IN v[lo + 1] * Scale + fr * (v[hi + 1] - v[lo + 1])

\* np.percentile(v, q) with linear interpolation, q in 1/Scale, times Scale
Percentile(v, q) ==
    LET a == SortVals(v)
        n == Len(a)
        pos == (n - 1) * q
        lo == pos \div Scale
        fr == pos % Scale
        hi == Min(lo + 1, n - 1)
    IN a[lo + 1] * Scale + fr * (a[hi + 1] - a[lo + 1])

\* np.median(v), times Scale
Median(v) ==
    LET a == SortVals(v)
        n == Len(a)
    IN IF n % 2 = 1 THEN a[(n + 1) \div 2] * Scale
       ELSE ((a[n \div 2] + a[n \div 2 + 1]) * Scale) \div 2

\* np.clip(x, lo, hi) = minimum(maximum(x, lo), hi)
\* The value passed on without clipping
ClipNone(x, lo, hi) == x

Clip(x, lo, hi) == Min(Max(x, lo), hi)

\* int(a / b) and astype(np.uint8) of a / b, for b # 0: truncation
TruncQuot(a, b) == IF b > 0 THEN TruncDiv(a, b) ELSE TruncDiv(-a, -b)

\* The scale turned upside down: vmin maps to 255 and vmax to 0
ToByteInverted(x, r) ==
    ByteMax - TruncQuot(ByteMax * (Clip(x, r.vmin, r.vmax) - r.vmin), r.vmax - r.vmin)

\* ((clip(x) - vmin) / (vmax - vmin) * 255) as a byte, x in 1/Scale:
\* V3 211-212 and 216-217, V2 180-181 and 187
ToByte(x, r) ==
    TruncQuot(ByteMax * (Clip(x, r.vmin, r.vmax) - r.vmin), r.vmax - r.vmin)

OceanMask(arr) == {p \in Pixels : arr[p] # NaN /\ NotLand(p)}
\* Every nodata pixel, land or not
BorderMaskWithLand(arr) == {p \in Pixels : arr[p] = NaN}

BorderMask(arr) == {p \in Pixels : arr[p] = NaN /\ NotLand(p)}

\* The border left black
BorderValueZero(valid, r) == 0

\* The border value of the first frame: V3 216-217 (0 when the frame has no
\* valid pixel), V2 186-187
BorderValue(valid, r) ==
    ToByte(IF valid = <<>> THEN 0 ELSE Median(valid), r)

\* The border is filled with the frame's own border value on every frame
FillNeverInherits(p, border) == border

\* V3 215-220, V2 185-190: a border pixel takes the previous frame's byte,
\* or the border value when there is no previous frame
Fill(p, border) == IF prev = NoFrame THEN border ELSE prev[p]

\* Every raster stretched over its own percentiles where it has any
FrameOfPerScene(arr, r) ==
    LET valid == Masked(arr, OceanMask(arr), NPix)
        own == IF valid = <<>> THEN r
               ELSE [vmin |-> Percentile(valid, PLow), vmax |-> Percentile(valid, PHigh)]
        rr == IF own.vmin < own.vmax THEN own ELSE r
        border == BorderValue(valid, rr)
    IN [p \in Pixels |->
          IF p \in args.polygon THEN ByteMax
          ELSE IF p \in OceanMask(arr) THEN ToByte(arr[p] * Scale, rr)
          ELSE IF p \in BorderMask(arr) THEN Fill(p, border)
          ELSE 0]

\* The 8-bit frame of one raster, for vmin # vmax
FrameOf(arr, r) ==
    LET valid == Masked(arr, OceanMask(arr), NPix)
        border == BorderValue(valid, r)
    IN [p \in Pixels |->
          IF p \in args.polygon THEN ByteMax
          ELSE IF p \in OceanMask(arr) THEN ToByte(arr[p] * Scale, r)
          ELSE IF p \in BorderMask(arr) THEN Fill(p, border)
          ELSE 0]

--------------------------------------------------------------------------
(* convert_geotiffs_to_pngs: the steps *)

\* gdal.Open on a file that does not open: both programs call
\* gdal.UseExceptions() on import (V2 10, V3 28), so gdal.Open raises
\* RuntimeError and never returns None: the tests "if ds is None" (V2 127,
\* 155-157) are not reached.
OpenRaises(f) == ~tifs[f].opens

\* "if vmin is None or vmax is None" (V3 179); flag_calc_vmin_vmax (V2 122)
\* Statistics only when both ends of the range are missing
NeedStatsBothMissing ==
    IF prog = "V3" THEN args.vmin = NoneArg /\ args.vmax = NoneArg
    ELSE args.flag

NeedStats ==
    IF prog = "V3" THEN args.vmin = NoneArg \/ args.vmax = NoneArg
    ELSE args.flag

UserRange == [vmin |-> args.vmin * Scale, vmax |-> args.vmax * Scale]

\* The head of the function: V3 164-179 and 196-197; V2 105-122 and 146.
\* V3 sorts the files at once, V2 after the statistics pass; V2 returns when
\* the directory holds no GeoTIFF.
PngStart ==
    /\ ppc = "start"
    /\ IF prog = "V2" /\ tifs = <<>>
       THEN /\ ppc' = "done"
            /\ perr' = "NoGeoTIFFs"
            /\ UNCHANGED <<files, vrange>>
       ELSE /\ perr' = perr
            /\ IF NeedStats
               THEN /\ ppc' = "stats"
                    /\ files' = IF prog = "V3" THEN SortedFiles ELSE Glob
                    /\ UNCHANGED vrange
               ELSE /\ ppc' = "convert"
                    /\ files' = SortedFiles
                    /\ vrange' = UserRange
    /\ UNCHANGED <<prog, tifs, landmask, args, vals, done, prev, png_out, zero_div,
                   videoVars, gridVars>>

\* The statistics pass: V3 180-195, V2 123-146.  With nothing pooled V3
\* raises RuntimeError, V2 prints an error and returns.
ComputeStats ==
    /\ ppc = "stats"
    /\ LET pooled == Pooled(files, Len(files))
       IN IF \E i \in 1..Len(files) : OpenRaises(files[i])
          THEN /\ ppc' = "failed"
               /\ perr' = "OpenFailed"
               /\ UNCHANGED <<vals, vrange, files>>
          ELSE
          /\ vals' = pooled
          /\ IF pooled = <<>>
             THEN /\ ppc' = IF prog = "V3" THEN "failed" ELSE "done"
                  /\ perr' = "NoValidData"
                  /\ UNCHANGED <<vrange, files>>
             ELSE /\ vrange' = [vmin |-> Percentile(pooled, PLow),
                                vmax |-> Percentile(pooled, PHigh)]
                  /\ files' = SortedFiles
                  /\ ppc' = "convert"
                  /\ UNCHANGED perr
    /\ UNCHANGED <<prog, tifs, landmask, args, done, prev, png_out, zero_div,
                   videoVars, gridVars>>

\* A frame without ocean pixels skipped by either program
SkipsFrameAnyProgram(arr) == OceanMask(arr) = {}

\* V2 177-179: a frame without ocean pixels is skipped
SkipsFrame(arr) == prog = "V2" /\ OceanMask(arr) = {}

\* One iteration of the frame loop: V3 201-223, V2 150-201.
\* With vmax = vmin the quotient is NaN: as an array element it is cast to a
\* byte (any byte may result), as the border value int() of it raises
\* ValueError.
ConvertFrame ==
    /\ ppc = "convert"
    /\ done < Len(files)
    /\ LET f == files[done + 1]
           arr == tifs[f].arr
       IN IF OpenRaises(f)
          THEN /\ ppc' = "failed"
               /\ perr' = "OpenFailed"
               /\ UNCHANGED <<done, prev, png_out, zero_div>>
          ELSE IF SkipsFrame(arr)
          THEN /\ done' = done + 1
               /\ UNCHANGED <<ppc, prev, png_out, zero_div, perr>>
          ELSE IF vrange.vmin = vrange.vmax
          THEN IF prev = NoFrame
               THEN /\ zero_div' = TRUE
                    /\ ppc' = "failed"
                    /\ perr' = "NaNToInt"
                    /\ UNCHANGED <<done, prev, png_out>>
               ELSE \E cast \in [Pixels -> {0, ByteMax}] :
                       LET out == [p \in Pixels |->
                                     IF p \in args.polygon THEN ByteMax
                                     ELSE IF p \in OceanMask(arr) THEN cast[p]
                                     ELSE IF p \in BorderMask(arr) THEN prev[p]
                                     ELSE 0]
                       IN /\ zero_div' = (zero_div \/ OceanMask(arr) # {})
                          /\ png_out' = Append(png_out, [file |-> f, out |-> out])
                          /\ prev' = out
                          /\ done' = done + 1
                          /\ UNCHANGED <<ppc, perr>>
          ELSE LET out == FrameOf(arr, vrange)
               IN /\ png_out' = Append(png_out, [file |-> f, out |-> out])
                  /\ prev' = out
                  /\ done' = done + 1
                  /\ UNCHANGED <<ppc, zero_div, perr>>
    /\ UNCHANGED <<prog, tifs, landmask, args, files, vals, vrange,
                   videoVars, gridVars>>

\* The end of the frame loop: V3 224, V2 203
ConvertDone ==
    /\ ppc = "convert"
    /\ done = Len(files)
    /\ ppc' = "done"
    /\ UNCHANGED <<prog, tifs, landmask, args, files, vals, vrange, done, prev,
                   png_out, zero_div, perr, videoVars, gridVars>>

InitPng ==
    /\ VideoIdle
    /\ GridIdle
    /\ prog \in {"V3", "V2"}
    /\ \/ /\ \E n \in 0..MaxTifs :
                \E names \in NamePatterns(n), arrs \in [1..n -> Arrs] :
                    tifs = [i \in 1..n |->
                              [name |-> names[i], arr |-> arrs[i], opens |-> TRUE]]
          /\ landmask \in Landmasks
          /\ args \in IF prog = "V3" THEN ArgsV3 ELSE ArgsV2
       \/ /\ prog = "V2"
          /\ \E n \in 1..MaxTifs :
                \E names \in NamePatterns(n), arrs \in [1..n -> Arrs], bad \in 1..n :
                    /\ arrs[bad] = Unreadable
                    /\ tifs = [i \in 1..n |->
                                 [name |-> names[i], arr |-> arrs[i], opens |-> i # bad]]
          /\ landmask = NoMask
          /\ args \in ArgsUnreadable
    /\ ppc = "start"
    /\ files = <<>>
    /\ vals = <<>>
    /\ vrange = [vmin |-> NoneArg, vmax |-> NoneArg]
    /\ done = 0
    /\ prev = NoFrame
    /\ png_out = <<>>
    /\ zero_div = FALSE
    /\ perr = "none"

NextPng == PngStart \/ ComputeStats \/ ConvertFrame \/ ConvertDone

SpecPng == InitPng /\ [][NextPng]_vars

\* convert_geotiffs_to_pngs up to the end of its statistics pass
NextStats == PngStart \/ ComputeStats

SpecStats == InitPng /\ [][NextStats]_vars

\* The runs of aoi_videomaker_V3.convert_geotiffs_to_pngs alone, with user
\* ranges that start below zero as well
InitPngV3 ==
    /\ VideoIdle
    /\ GridIdle
    /\ prog = "V3"
    /\ \E n \in 0..MaxTifs :
          \E names \in NamePatterns(n), arrs \in [1..n -> Arrs] :
              tifs = [i \in 1..n |->
                        [name |-> names[i], arr |-> arrs[i], opens |-> TRUE]]
    /\ landmask \in Landmasks
    /\ args \in ArgsV3 \cup ArgsV3Negative
    /\ ppc = "start"
    /\ files = <<>>
    /\ vals = <<>>
    /\ vrange = [vmin |-> NoneArg, vmax |-> NoneArg]
    /\ done = 0
    /\ prev = NoFrame
    /\ png_out = <<>>
    /\ zero_div = FALSE
    /\ perr = "none"

SpecPngV3 == InitPngV3 /\ [][NextPng]_vars

--------------------------------------------------------------------------
(* Properties of the reference grid and of pad_directory (checked under    *)
(* SpecGrid)                                                               *)

InputBounds == {BoundsOf(input_dir[i]) : i \in 1..Len(input_dir)}
\* The grid's edges, from its transform and size
GridLeft == ref.transform.c
GridTop == ref.transform.f
GridRight == ref.transform.c + ref.transform.a * ref.size.width
GridBottom == ref.transform.f - ref.transform.a * ref.size.height

\* C1: the grid built from a non-empty set of scene bounds contains every
\* scene's bounds, and its origin (left edge, top edge) is an exact multiple
\* of the resolution.
C1_GridContainsScenes ==
    ref.set =>
        /\ \A b \in InputBounds :
              /\ GridLeft <= b.left
              /\ b.right <= GridRight
              /\ GridBottom <= b.bottom
              /\ b.top <= GridTop
        /\ GridLeft % resolution = 0
        /\ GridTop % resolution = 0
        /\ ref.transform.a = resolution
        /\ ref.ext = [left |-> GridLeft, bottom |-> GridBottom,
                      right |-> GridRight, top |-> GridTop]

\* A grid built from two scenes, one of them with negative corner coordinates
\* off the resolution's multiples, so that snapping moved the origin
C1_Witness ==
    /\ ref.set
    /\ Len(input_dir) = 2
    /\ \E b \in InputBounds :
          /\ b.left < 0 /\ b.left % resolution # 0 /\ GridLeft < b.left
          /\ b.top < 0 /\ b.top % resolution # 0
    /\ \E b \in InputBounds : b.right % resolution # 0 /\ b.right < GridRight

SameShape(raster) ==
    /\ raster.width = ref.size.width
    /\ raster.height = ref.size.height
    /\ raster.transform = ref.transform
    /\ Len(raster.data) = ref.size.height
    /\ \A r \in 1..Len(raster.data) : Len(raster.data[r]) = ref.size.width

\* C2: every aligned raster written for a scene, whatever the scene's extent,
\* position or native pixel size, has exactly the grid's height and width and
\* carries the grid's transform.
C2_AlignedRastersShareGrid ==
    \A k \in 1..Len(output_dir) : SameShape(output_dir[k])

\* Two scenes of different size and pixel size, both aligned, neither of the
\* grid's shape to begin with
C2_Witness ==
    /\ gpc = "done"
    /\ Len(output_dir) = 2
    /\ input_dir[1].px # input_dir[2].px
    /\ input_dir[1].width # input_dir[2].width
    /\ \A k \in 1..2 :
          /\ input_dir[k].width # ref.size.width
          /\ input_dir[k].height # ref.size.height

\* C10: with zero scenes no grid is built: the run fails with the empty-input
\* error of the scan, no grid is returned and no raster is aligned.
C10_EmptyInputFails ==
    (gpc # "scan" /\ input_dir = <<>>) =>
        /\ gpc = "failed"
        /\ gerr = "NoGeoTIFFs"
        /\ ref = NoGrid
        /\ output_dir = <<>>

\* The run over an empty directory has failed
C10_Witness ==
    /\ input_dir = <<>>
    /\ gpc = "failed"
    /\ gerr = "NoGeoTIFFs"
    /\ ~ref.set

\* src.read() of a scene: its pixels, row by row
SourceData(s) == [r \in 1..s.height |-> [c \in 1..s.width |-> SrcPixel(s, r - 1, c - 1)]]

\* A scene that already has the grid's origin, resolution and dimensions
OnGrid(s) ==
    /\ s.left = ref.transform.c
    /\ s.top = ref.transform.f
    /\ s.px = ref.transform.a
    /\ s.width = ref.size.width
    /\ s.height = ref.size.height

\* A raster pad_to_ref wrote, opened as a source: its pixels are those of a
\* scene of its shape exactly when they are numbered row by row
AsScene(raster) ==
    [left |-> raster.transform.c, top |-> raster.transform.f,
     width |-> raster.width, height |-> raster.height, px |-> raster.transform.a]

\* C12: pad_to_ref applied to a raster that already has the grid's origin,
\* resolution and dimensions writes the input's pixels unchanged, and applied
\* to its own output it writes that output again.
C12_ExactCopyIdempotent ==
    prog = "pad" =>
        \A k \in 1..Len(output_dir) :
            OnGrid(input_dir[k]) =>
                /\ output_dir[k].data = SourceData(input_dir[k])
                /\ SourceData(AsScene(output_dir[k])) = output_dir[k].data
                /\ pad_to_ref(AsScene(output_dir[k]), ref.transform, ref.size, Nodata)
                      = [ok |-> TRUE, raster |-> output_dir[k]]

\* A scene of two by two pixels that lies on the grid was aligned next to a
\* smaller scene that does not
C12_Witness ==
    /\ prog = "pad"
    /\ gpc = "done"
    /\ Len(output_dir) = 2
    /\ \E k \in 1..2 :
          /\ OnGrid(input_dir[k])
          /\ input_dir[k].width = 2
          /\ input_dir[k].height = 2
          /\ ~OnGrid(input_dir[3 - k])

\* A scene wholly outside the grid's extent: entirely left of, right of,
\* below or above it
Outside(s) ==
    LET b == BoundsOf(s)
    IN \/ b.right <= GridLeft
       \/ b.left >= GridRight
       \/ b.top <= GridBottom
       \/ b.bottom >= GridTop

AllNodata(raster) ==
    \A r \in 1..Len(raster.data) :
        \A c \in 1..Len(raster.data[r]) : raster.data[r][c] = Nodata

\* C14: pad_to_ref on a scene wholly outside the grid's extent does not raise
\* and writes a raster of the grid's shape in which every pixel is nodata.
C14_OutsideSceneAllNodata ==
    (prog = "pad" /\ ref.set) =>
        /\ \A k \in 1..Len(output_dir) :
              Outside(input_dir[k]) =>
                  SameShape(output_dir[k]) /\ AllNodata(output_dir[k])
        /\ (gpc = "failed" /\ gerr = "BroadcastError") =>
              ~Outside(input_dir[Len(output_dir) + 1])

\* The directory holds the three scenes of the scenario, at resolution 10
IsScenario == input_dir \in ScenarioDirs /\ resolution = 10

\* C19: for the three scenes with bounds (0,0,100,100), (50,50,150,150) and
\* (-20,-20,80,80) at resolution 10, build_reference_grid returns the grid
\* with origin_x = -20, origin_y_top = 150, width = 17 and height = 17.
C19_ScenarioGrid ==
    (IsScenario /\ gpc \in {"pad", "done"}) =>
        /\ ref.set
        /\ ref.transform = [a |-> 10, c |-> -20, f |-> 150]
        /\ ref.size = [width |-> 17, height |-> 17]

\* The scenario's grid was built and the three scenes aligned to it
C19_Witness ==
    /\ IsScenario
    /\ BoundsOf(input_dir[1]) = [left |-> 50, bottom |-> 50, right |-> 150, top |-> 150]
    /\ gpc = "done"
    /\ ref.set
    /\ GridLeft = -20 /\ GridTop = 150
    /\ Len(output_dir) = 3
    /\ \A k \in 1..3 : output_dir[k].width = 17 /\ output_dir[k].height = 17

\* The union extent of the input scenes
UnionLeft == SetMin({b.left : b \in InputBounds})
UnionRight == SetMax({b.right : b \in InputBounds})
UnionBottom == SetMin({b.bottom : b \in InputBounds})
UnionTop == SetMax({b.top : b \in InputBounds})

\* A span of n pixels of the resolution that starts at a multiple of the
\* resolution and covers lo..hi
Covers(start, n, lo, hi) ==
    /\ start % resolution = 0
    /\ start <= lo
    /\ hi <= start + n * resolution

\* No span of fewer than n pixels on the resolution's multiples covers lo..hi
NoShorterSpan(n, lo, hi) ==
    \A m \in 0..(n - 1) :
        \A start \in (lo - resolution * n)..lo : ~Covers(start, m, lo, hi)

Placed(s, ro, co) ==
    [r \in 1..ref.size.height |->
        [c \in 1..ref.size.width |->
            IF /\ 0 <= r - 1 - ro /\ r - 1 - ro < s.height
               /\ 0 <= c - 1 - co /\ c - 1 - co < s.width
            THEN SrcPixel(s, r - 1 - ro, c - 1 - co)
            ELSE Nodata]]

\* k is an integer nearest to num / den, for den > 0 (either neighbour at a tie)
Nearest(k, num, den) ==
    LET d == k * den - num
    IN 2 * (IF d < 0 THEN -d ELSE d) <= den

\* C24: for a source with the grid's resolution the raster pad_to_ref writes
\* is the source placed at col_offset = round((src_left - grid_origin_x) /
\* resolution) and row_offset = round((grid_top - src_top) / resolution):
\* source pixel (r - row_offset, c - col_offset) inside the overlap and nodata
\* outside it.
C24_PlacedAtRoundedOffset ==
    (prog = "pad" /\ ref.set) =>
        \A k \in 1..Len(output_dir) :
            LET s == input_dir[k]
                res == ref.transform.a
                dx == s.left - ref.transform.c
                dy == ref.transform.f - s.top
            IN s.px = res =>
                  \E ro \in {FloorDiv(dy, res), FloorDiv(dy, res) + 1} :
                      \E co \in {FloorDiv(dx, res), FloorDiv(dx, res) + 1} :
                          /\ Nearest(co, dx, res)
                          /\ Nearest(ro, dy, res)
                          /\ output_dir[k].data = Placed(s, ro, co)

\* C26: the two implementations of build_reference_grid return the same
\* origin, the same transform and the same (width, height) for every non-empty
\* set of bounds and every positive resolution.  Stated of the grid the
\* program's own implementation returned, against the other one's.
C26_BuildersAgree ==
    (ref.set /\ gpc = "pad" /\ output_dir = <<>>) =>
        LET bs == {FloatBoundsOf(input_dir[i]) : i \in 1..Len(input_dir)}
            res == FromDecimal(resolution)
            V3 == build_reference_grid_V3_float(bs, res)
            pad == build_reference_grid_pad_float(bs, res)
        IN /\ ref \in {V3, pad}
           /\ V3.transform = pad.transform
           /\ V3.size = pad.size

--------------------------------------------------------------------------
(* Properties of convert_geotiffs_to_pngs (checked under SpecPng) *)

\* A pixel that is invalid in a raster: nodata or land
Invalid(arr, p) == arr[p] = NaN \/ IsLand(p)

\* C3: in every frame written after the first, every pixel that is invalid in
\* that frame (nodata or land) has the byte the previous frame has there.
C3_TemporalInheritance ==
    \A k \in 2..Len(png_out) :
        \A p \in Pixels :
            Invalid(tifs[png_out[k].file].arr, p) =>
                png_out[k].out[p] = png_out[k - 1].out[p]

\* A second frame whose nodata pixel took over a byte that the frame's own
\* border value would not have given
C3_Witness ==
    /\ Len(png_out) = 2
    /\ vrange.vmin < vrange.vmax
    /\ \E p \in Pixels :
          LET arr == tifs[png_out[2].file].arr
              valid == Masked(arr, OceanMask(arr), NPix)
          IN /\ arr[p] = NaN
             /\ ~IsLand(p)
             /\ valid # <<>>
             /\ png_out[2].out[p] = png_out[1].out[p]
             /\ png_out[2].out[p] # BorderValue(valid, vrange)
             /\ png_out[2].out[p] # 0

\* The statistics pass has run
StatsRan == NeedStats /\ ppc \in {"convert", "done", "failed"} /\ tifs # <<>>

\* The population the statistics are claimed to pool: over all scenes, the
\* pixels that are not nodata and, with a landmask, lie on ocean (value 0)
RECURSIVE ClaimedPool(_)
ClaimedPool(n) ==
    IF n = 0 THEN <<>>
    ELSE ClaimedPool(n - 1)
         \o Masked(tifs[n].arr, {p \in Pixels : tifs[n].arr[p] # NaN /\ NotLand(p)}, NPix)

\* C4: the values pooled for the value range are exactly those of the pixels,
\* over all scenes, that are not nodata and not land; land pixels are never
\* pooled.
C4_PoolIsOceanValid ==
    StatsRan => SortVals(vals) = SortVals(ClaimedPool(Len(tifs)))

\* C8: with vmax = vmin the normalisation fails with a degenerate-range error
\* before any frame is produced, and the division by vmax - vmin is never
\* evaluated.
C8_DegenerateRangeRejected ==
    /\ ~zero_div
    /\ (ppc = "failed" /\ perr # "NoValidData" /\ vrange.vmin = vrange.vmax)
          => perr = "DegenerateRange"

\* C9: when the range has to be computed and no scene holds a valid pixel
\* (not nodata, not land), the statistics step fails with the no-valid-data
\* error and no frame is written.
C9_NoValidDataFails ==
    (StatsRan /\ ClaimedPool(Len(tifs)) = <<>>) =>
        /\ perr = "NoValidData"
        /\ png_out = <<>>
        /\ done = 0

\* Input values between 0 and 2 in steps of a quarter, in 1/Scale
SampleVals == {k * (Scale \div 4) : k \in 0..8}

\* The ocean pixels of a written frame that the polygon outline does not cover
Scaled(k) == OceanMask(tifs[png_out[k].file].arr) \ args.polygon

\* C11: for a value range with vmin < vmax, of two ocean-valid input values
\* a < b within [vmin, vmax] the byte of a is at most the byte of b; so it is
\* for the scaling function and for the pixels of every frame written.
C11_ScalingMonotone ==
    vrange.vmin < vrange.vmax =>
        /\ done = 0 =>
              \A a, b \in SampleVals :
                  (vrange.vmin <= a /\ a < b /\ b <= vrange.vmax) =>
                      ToByte(a, vrange) <= ToByte(b, vrange)
        /\ \A k \in 1..Len(png_out) :
              LET arr == tifs[png_out[k].file].arr
              IN \A p, q \in Scaled(k) :
                    (/\ vrange.vmin <= arr[p] * Scale
                     /\ arr[p] < arr[q]
                     /\ arr[q] * Scale <= vrange.vmax) =>
                        png_out[k].out[p] <= png_out[k].out[q]

\* A frame with two ocean pixels of different value inside the range, scaled
\* to different bytes, under a range with sample values strictly inside it
C11_Witness ==
    /\ vrange.vmin < vrange.vmax
    /\ \E k \in 1..Len(png_out) :
          LET arr == tifs[png_out[k].file].arr
          IN \E p, q \in Scaled(k) :
                /\ vrange.vmin <= arr[p] * Scale
                /\ arr[p] < arr[q]
                /\ arr[q] * Scale <= vrange.vmax
                /\ png_out[k].out[p] < png_out[k].out[q]
    /\ \E a, b \in SampleVals :
          /\ vrange.vmin < a /\ a < b /\ b < vrange.vmax
          /\ 0 < ToByte(a, vrange)
          /\ ToByte(a, vrange) < ToByte(b, vrange)
          /\ ToByte(b, vrange) < ByteMax

\* The orders in which the scenes can be scanned
ScanOrders ==
    {o \in [1..Len(tifs) -> 1..Len(tifs)] : \A i, j \in 1..Len(tifs) : o[i] = o[j] => i = j}

\* The statistics pass has computed a range
RangeComputed == NeedStats /\ ppc \in {"convert", "done", "failed"} /\ vals # <<>>

\* C13: the computed value range is the same for every permutation of the
\* order in which the statistics pass scans the scenes.  Stated of the range
\* as the statistics pass leaves it, before the first frame.
C13_RangeOrderInvariant ==
    (RangeComputed /\ done = 0) =>
        \A o \in ScanOrders :
            LET pooled == Pooled(o, Len(tifs))
            IN /\ pooled # <<>>
               /\ vrange.vmin = Percentile(pooled, PLow)
               /\ vrange.vmax = Percentile(pooled, PHigh)

\* A range computed from two scenes that another scan order pools into a
\* different sequence of values
C13_Witness ==
    /\ RangeComputed /\ done = 0
    /\ Len(tifs) = 2
    /\ vrange.vmin < vrange.vmax
    /\ \E o \in ScanOrders :
          /\ Pooled(o, Len(tifs)) # vals
          /\ Pooled(o, Len(tifs))[1] > vals[1]

\* The range of a run that got as far as the frame loop: the percentiles of
\* the values pooled over all scenes, or the caller's
BatchRange ==
    IF NeedStats
    THEN [vmin |-> Percentile(Pooled(Glob, Len(tifs)), PLow),
          vmax |-> Percentile(Pooled(Glob, Len(tifs)), PHigh)]
    ELSE UserRange

InFrameLoop == ppc \in {"convert", "done"} /\ perr = "none"

\* Every frame written so far is scaled with the range in force now
FramesUseRange ==
    \A k \in 1..Len(png_out) :
        \A p \in Scaled(k) :
            png_out[k].out[p] = ToByte(tifs[png_out[k].file].arr[p] * Scale, vrange)

\* C16: the value range is fixed before the first frame is normalised, from
\* the values pooled over all scenes when it is computed; it is not modified
\* afterwards, and every frame of the batch is scaled with it.
C16_RangeFixedForBatch ==
    /\ []((InFrameLoop \/ png_out # <<>>) => (vrange = BatchRange /\ FramesUseRange))
    /\ [][ppc = "convert" => vrange' = vrange]_vars

\* The range any one scene would give on its own
OwnRange(i) ==
    LET pooled == Pooled(<<i>>, 1)
    IN [vmin |-> Percentile(pooled, PLow), vmax |-> Percentile(pooled, PHigh)]

\* Two frames written under a computed range that differs from the range of
\* either scene alone, each with an ocean pixel scaled strictly inside 0..255
C16_Witness ==
    /\ RangeComputed
    /\ ppc = "done"
    /\ Len(png_out) = 2
    /\ \A i \in 1..2 : Pooled(<<i>>, 1) # <<>> /\ OwnRange(i) # vrange
    /\ \A k \in 1..2 :
          \E p \in Scaled(k) : 0 < png_out[k].out[p] /\ png_out[k].out[p] < ByteMax

\* The files the frame loop has gone through, and those with a frame written
GoneThrough == {files[k] : k \in 1..done}
WithFrame == {png_out[k].file : k \in 1..Len(png_out)}

\* C17: a scene that fails in frame processing (it yields no usable data)
\* aborts the batch; no scene is skipped while the scenes after it are still
\* processed: every file the loop has gone through has its frame.
C17_NoSceneSkipped ==
    ppc \in {"convert", "done"} => GoneThrough = WithFrame

\* The first frame written: its raster and its ocean-valid values
FirstArr == tifs[png_out[1].file].arr
FirstValid == Masked(FirstArr, OceanMask(FirstArr), NPix)

C22_ScaledRoundsToNearest ==
    vrange.vmin < vrange.vmax =>
        \A k \in 1..Len(png_out) :
            \A p \in Scaled(k) :
                Nearest(png_out[k].out[p],
                        ByteMax * (Clip(tifs[png_out[k].file].arr[p] * Scale,
                                        vrange.vmin, vrange.vmax) - vrange.vmin),
                        vrange.vmax - vrange.vmin)

PlaceOf(f) == CHOOSE i \in 1..Len(files) : files[i] = f

\* C25: frames are normalized one at a time in ascending order of the parsed
\* acquisition time; the previous-frame state is empty before the first frame,
\* and when frame k > 1 is normalized it is the finished output of frame k - 1
\* of that order.
C25_ChronologicalPrevious ==
    ppc \in {"convert", "done"} =>
        /\ \A k \in 1..Len(png_out) :
              /\ PlaceOf(png_out[k].file) <= done
              /\ \A j \in (k + 1)..Len(png_out) :
                    /\ PlaceOf(png_out[k].file) < PlaceOf(png_out[j].file)
                    /\ TifKeys[png_out[k].file] <= TifKeys[png_out[j].file]
        /\ png_out = <<>> => prev = NoFrame
        /\ png_out # <<>> => prev = png_out[Len(png_out)].out

\* Two frames written in the order of their dates, against the order of the
\* directory listing, the second one's output now being the previous frame
C25_Witness ==
    /\ Len(png_out) = 2
    /\ png_out[1].file = 2
    /\ png_out[2].file = 1
    /\ TifKeys[2] < TifKeys[1]
    /\ prev = png_out[2].out
    /\ png_out[1].out # png_out[2].out

\* C27, as claimed: with a landmask every land pixel of every frame written is
\* 0, whether or not the pixel holds data.
C27_LandIsZero ==
    landmask # NoMask =>
        \A k \in 1..Len(png_out) :
            \A p \in Pixels : IsLand(p) => png_out[k].out[p] = 0

\* C27, amended: with a landmask every land pixel of every frame written is
\* 0, whether or not the pixel holds data, unless it lies under the polygon
\* outline that V2 draws at 255.
C27_LandIsZeroOffOutline ==
    landmask # NoMask =>
        \A k \in 1..Len(png_out) :
            \A p \in Pixels :
                IsLand(p) =>
                    png_out[k].out[p] = (IF p \in args.polygon THEN ByteMax ELSE 0)

\* Two frames with a land pixel that holds data above vmin in the first and
\* no data in the second, 0 in both, next to an ocean pixel that is not 0
C27_Witness ==
    /\ landmask # NoMask
    /\ Len(png_out) = 2
    /\ vrange.vmin < vrange.vmax
    /\ \E p, q \in Pixels \ args.polygon :
          /\ IsLand(p)
          /\ NotLand(q)
          /\ tifs[png_out[1].file].arr[p] # NaN
          /\ tifs[png_out[1].file].arr[p] * Scale > vrange.vmin
          /\ tifs[png_out[2].file].arr[p] = NaN
          /\ png_out[1].out[p] = 0
          /\ png_out[2].out[p] = 0
          /\ png_out[1].out[q] > 0
          /\ png_out[2].out[q] > 0

\* How many of vmin, vmax the caller gave
Given == Cardinality({a \in {"vmin", "vmax"} : args[a] # NoneArg})

\* C28: in V3 the user-supplied range is used unchanged only when both vmin
\* and vmax are given, and then no statistics pass runs and no no-valid-data
\* error occurs; when exactly one is given (or none) both are the computed
\* percentiles and the supplied value is discarded.  The computed range is
\* stated as the statistics pass leaves it, before the first frame.
C28_OneSidedRangeRecomputed ==
    (prog = "V3" /\ ppc # "start") =>
        /\ Given = 2 =>
              /\ ppc # "stats"
              /\ vals = <<>>
              /\ perr # "NoValidData"
              /\ vrange = [vmin |-> args.vmin * Scale, vmax |-> args.vmax * Scale]
        /\ (Given < 2 /\ ppc = "convert" /\ done = 0) =>
              /\ vals # <<>>
              /\ vrange = [vmin |-> Percentile(vals, PLow),
                           vmax |-> Percentile(vals, PHigh)]
        /\ (Given < 2 /\ ppc \in {"done", "failed"}) =>
              (vals # <<>> \/ perr = "NoValidData")

\* vmin alone was given: the statistics pass ran, and the range in use starts
\* at a computed percentile that differs from the vmin supplied
C28_Witness ==
    /\ prog = "V3"
    /\ args.vmin # NoneArg
    /\ args.vmax = NoneArg
    /\ ppc = "convert"
    /\ done = 0
    /\ vals # <<>>
    /\ vrange.vmin = Percentile(vals, PLow)
    /\ vrange.vmin # args.vmin * Scale
    /\ vrange.vmin < vrange.vmax

\* The scene the frame loop handles next cannot be opened or has no
\* ocean-valid pixel
NextSceneUnusable ==
    /\ ppc = "convert"
    /\ done < Len(files)
    /\ \/ OpenRaises(files[done + 1])
       \/ OceanMask(tifs[files[done + 1]].arr) = {}

\* C29: in V2 a scene that cannot be opened or has no ocean-valid pixel gets
\* no frame and leaves the previous frame as it was, and the loop goes on to
\* the next scene, which so inherits from the last frame written (or is the
\* first frame if none was).
C29_UnusableSceneSkipped ==
    [][(prog = "V2" /\ NextSceneUnusable) =>
          /\ png_out' = png_out
          /\ prev' = prev
          /\ done' = done + 1
          /\ ppc' = "convert"]_vars

\* The first scene of the sorted list has no ocean-valid pixel
FirstSceneEmpty == Len(files) >= 1 /\ OceanMask(tifs[files[1]].arr) = {}

\* C30: in V3 a first frame with no ocean-valid pixel is not an error when
\* vmin < vmax: the frame is written, its nodata pixels off the land hold the
\* scaled value of 0 clipped into [vmin, vmax], and it is the previous frame
\* for the next scene, whose nodata pixels inherit from it.
C30_EmptyFirstFrameWritten ==
    (prog = "V3" /\ vrange.vmin < vrange.vmax /\ FirstSceneEmpty) =>
        /\ ppc \in {"convert", "done"}
        /\ perr = "none"
        /\ done >= 1 =>
              /\ Len(png_out) = done
              /\ png_out[1].file = files[1]
              /\ \A p \in BorderMask(FirstArr) :
                    png_out[1].out[p] =
                        TruncQuot(ByteMax * (Clip(0, vrange.vmin, vrange.vmax) - vrange.vmin),
                                  vrange.vmax - vrange.vmin)
        /\ done = 1 => prev = png_out[1].out
        /\ done >= 2 =>
              \A p \in BorderMask(tifs[png_out[2].file].arr) :
                  png_out[2].out[p] = png_out[1].out[p]

\* A first scene without data written as a frame filled with the byte of 0
\* under a range from below zero, which the second scene's nodata pixel
\* inherited next to an ocean pixel scaled to another byte
C30_Witness ==
    /\ prog = "V3"
    /\ vrange.vmin < 0
    /\ 0 < vrange.vmax
    /\ FirstSceneEmpty
    /\ done = 2
    /\ \A p \in Pixels : png_out[1].out[p] = 127
    /\ \E p, q \in Pixels :
          /\ p \in BorderMask(tifs[png_out[2].file].arr)
          /\ q \in OceanMask(tifs[png_out[2].file].arr)
          /\ png_out[2].out[p] = 127
          /\ png_out[2].out[q] # 127

--------------------------------------------------------------------------
(* Properties of create_video (checked under SpecVideo) *)

SeqRange(s) == {s[i] : i \in 1..Len(s)}
Collected == vpc \in {"open", "write", "done"}
\* The state in which the head of create_video leaves the list of frames
JustCollected == vpc = "open" \/ (vpc = "done" /\ written = <<>>)
Unparsable(i) == ~Parsable(png_dir[i])

\* C5: the frames handed to the video sink are in non-decreasing order of
\* their parsed acquisition time, whatever the file names and date filters.
C5_WrittenInTimeOrder ==
    \A i, j \in 1..Len(written) :
        i < j => KeyOf(written[i]) <= KeyOf(written[j])

\* A finished video of frames whose directory order was not their time order
C5_Witness ==
    /\ vpc = "done" /\ vw = "released"
    /\ Len(written) >= 2
    /\ \E i, j \in 1..Len(png_dir) : i < j /\ KeyOf(i) > KeyOf(j)
    /\ KeyOf(written[1]) < KeyOf(written[Len(written)])

\* C6, as claimed: a frame with an unparsable name is never dropped, with or
\* without a date filter, and sorts before every frame with a parsed time.
C6_UnparsableNeverDropped ==
    Collected =>
        \A i \in 1..Len(png_dir) :
            Unparsable(i) =>
                /\ KeyOf(i) = DatetimeMin
                /\ i \in SeqRange(pngs)

\* C6, amended: an unparsable name gets the sentinel minimum time stamp; the
\* frame is kept exactly when V2 has no date filter, or V3 no start date;
\* a kept one comes before every kept frame with a parsed time.
C6_UnparsableKeptWithoutFilter ==
    Collected =>
        /\ \A i \in 1..Len(png_dir) :
              Unparsable(i) =>
                  /\ KeyOf(i) = DatetimeMin
                  /\ i \in SeqRange(pngs) <=>
                        IF prog = "V3" THEN start_date = NoDate
                        ELSE start_date \in {NoDate, InvalidDate}
                             /\ end_date \in {NoDate, InvalidDate}
        /\ \A a, b \in 1..Len(pngs) :
              (Unparsable(pngs[a]) /\ ~Unparsable(pngs[b])) => a < b

\* An unparsable name, listed after a parsable one, was written first
C6_Witness ==
    /\ vpc = "done" /\ vw = "released"
    /\ Len(written) >= 2
    /\ Unparsable(written[1])
    /\ ~Unparsable(written[2])
    /\ written[1] > written[2]

\* C7: when no frame remains after the date filter (an empty directory
\* included), create_video reports it and returns: no video writer is opened,
\* nothing is written, nothing is finalised.
C7_NoFramesNoVideo ==
    /\ (vpc # "start" /\ ~StrptimeRaises /\ written = <<>> /\ FramesKept = <<>>) =>
          /\ vpc = "done"
          /\ vmsg = "NoFrames"
          /\ vw = "none"
    /\ written # <<>> => (pngs # <<>> /\ vw # "none" /\ vmsg # "NoFrames")

\* A directory with frames, all of them outside the date window
C7_Witness ==
    /\ vpc = "done" /\ vmsg = "NoFrames"
    /\ Len(png_dir) >= 2
    /\ \E i \in 1..Len(png_dir) : ~Unparsable(i)
    /\ vw = "none"

\* The bounds that are given, applied to a calendar date, both ends inclusive
InRange(d) ==
    /\ (start_date \in Dates => start_date <= d)
    /\ (end_date \in Dates => d <= end_date)

\* C15, as claimed: the frames kept are exactly those whose parsed calendar
\* date lies within the given bounds; for a name that does not parse the
\* parsed date is the sentinel's.
C15_KeepsExactlyDatesInRange ==
    Collected =>
        SeqRange(pngs) = {i \in 1..Len(png_dir) : InRange(DateOf(KeyOf(i)))}

\* C15, amended: of the frames whose names parse, exactly those with
\* start_date <= d <= end_date are kept (both ends inclusive, each bound
\* applied only if given), whatever their time of day; a frame whose name
\* does not parse is kept by V2 only when no date filter is active, and by V3
\* only when no start date is given.  Stated of the list of frames as the
\* filters leave it, before the first frame is written.
C15_KeepsParsableDatesInRange ==
    JustCollected =>
        LET kept == SeqRange(pngs)
        IN /\ \A i \in 1..Len(png_dir) :
                 Parsable(png_dir[i]) => (i \in kept <=> InRange(png_dir[i].date))
           /\ \A i, j \in 1..Len(png_dir) :
                 (/\ Parsable(png_dir[i]) /\ Parsable(png_dir[j])
                  /\ png_dir[i].date = png_dir[j].date) =>
                     (i \in kept <=> j \in kept)
           /\ \A i \in 1..Len(png_dir) :
                 Unparsable(i) =>
                     (i \in kept <=>
                         IF prog = "V2" THEN ~date_filter ELSE start_date = NoDate)

\* Both bounds given: a frame of the start date and a late frame of the end
\* date are kept, a frame of an earlier date is dropped
C15_Witness ==
    /\ JustCollected
    /\ start_date \in Dates /\ end_date \in Dates /\ start_date < end_date
    /\ \E i, j, k \in 1..Len(png_dir) :
          /\ Parsable(png_dir[i]) /\ Parsable(png_dir[j]) /\ Parsable(png_dir[k])
          /\ png_dir[i].date = start_date /\ i \in SeqRange(pngs)
          /\ png_dir[j].date = end_date /\ png_dir[j].time = 1 /\ j \in SeqRange(pngs)
          /\ png_dir[k].date < start_date /\ k \notin SeqRange(pngs)

\* C18: parse_filename_for_datetime returns a time stamp for every file name
\* and never raises; whenever the fixed-offset fields are missing, not
\* numbers or outside the calendar, the time stamp is the sentinel minimum.
\* No run of create_video ends with an exception from the parser.  The
\* parser's answers are stated for the names of the listing once the head of
\* create_video has sorted them; the listing does not change.
C18_ParseTotal ==
    /\ vmsg # "ParseRaised"
    /\ (JustCollected \/ vpc = "failed") =>
          \A i \in 1..Len(png_dir) :
              LET o == ParseOutcome(png_dir[i])
              IN /\ ~o.raises
                 /\ o.dt \in Nat
                 /\ parse_filename_for_datetime(png_dir[i]) = o.dt
                 /\ (IntRaises(png_dir[i]) \/ DatetimeRaises(png_dir[i]))
                       => o.dt = DatetimeMin

\* A video was written from three frames: one with a time field that is
\* missing or not a number, one with a date outside the calendar, both given
\* the sentinel, and one with a proper time stamp
C18_Witness ==
    /\ vpc = "open"
    /\ Len(png_dir) = 3
    /\ Len(pngs) = 3
    /\ written = <<>>
    /\ \E i, j, k \in 1..3 :
          /\ IntRaises(png_dir[i]) /\ KeyOf(i) = DatetimeMin
          /\ DatetimeRaises(png_dir[j]) /\ KeyOf(j) = DatetimeMin
          /\ Parsable(png_dir[k]) /\ KeyOf(k) > DatetimeMin

==========================================================================
